---- MODULE Spec2Model ----
(***************************************************************************)
(* State-machine model of src/server.js (the rate-limited, validated       *)
(* variant, lines 1-198): the two request handlers, the yt-dlp runner with *)
(* its timeout, the per-request temp directory and the hourly sweep.       *)
(*                                                                         *)
(* Text is modelled as a sequence of one-character strings, so that        *)
(* startsWith and the unanchored, case-insensitive regular expressions are *)
(* computed the way the code computes them.  Time advances in steps of     *)
(* TickMs milliseconds.                                                    *)
(***************************************************************************)
EXTENDS Integers, Sequences, FiniteSets, TLC

(* ------------------------------ bounds -------------------------------- *)
\* number of request slots (each slot carries one HTTP request)
MaxReq == 1
\* number of files the tool can leave in one temp directory
MaxFiles == 1
\* number of data events on each of the child's stdout and stderr
MaxChunks == 1
\* length of the format list in the tool's JSON output
MaxFormats == 2
\* number of download requests handled at the same time
MaxDownloads == 2
\* number of requests of one client beyond the limit of its window
MaxOver == 2

(* ----------------------------- constants ------------------------------ *)
\* one step of the model's clock, in milliseconds (thirty minutes); a timer
\* of less than one step is due before the clock's next step
TickMs == 1000 * 60 * 30
MAX_FILE_AGE == 1000 * 60 * 30
YT_DLP_TIMEOUT == 1000 * 60 * 5
SWEEP_INTERVAL == 1000 * 60 * 60
\* the rate limiter's options: windowMs and max
WINDOW_MS == 15 * 60 * 1000
RATE_MAX == 100
\* the runner's timeout and the sweep interval in steps of the clock
TimeoutTicks == YT_DLP_TIMEOUT \div TickMs
SweepTicks == SWEEP_INTERVAL \div TickMs
\* ages above the retention window are not told apart
AgeCap == (MAX_FILE_AGE \div TickMs) + 1

(* ------------------------------- text --------------------------------- *)
Upper == [c \in {"m", "p", "a", "o", "u", "s", "w", "e", "b"} |->
            CASE c = "m" -> "M" [] c = "p" -> "P" [] c = "a" -> "A"
              [] c = "o" -> "O" [] c = "u" -> "U" [] c = "s" -> "S"
              [] c = "w" -> "W" [] c = "e" -> "E" [] c = "b" -> "B"]

\* the lower-case letter of a character (the /i flag of the regular expressions)
LowerChar(c) ==
    IF \E l \in DOMAIN Upper : Upper[l] = c
      THEN CHOOSE l \in DOMAIN Upper : Upper[l] = c
      ELSE c

ToLower(s) == [i \in 1..Len(s) |-> LowerChar(s[i])]

\* String.prototype.startsWith
startsWith(s, prefix) ==
    /\ Len(s) >= Len(prefix)
    /\ SubSeq(s, 1, Len(prefix)) = prefix

\* an unanchored match of a literal: the literal occurs somewhere in s
Contains(s, lit) ==
    \E i \in 1..(Len(s) - Len(lit) + 1) : SubSeq(s, i, i + Len(lit) - 1) = lit

\* /a|b|c/i.test(s) for literal alternatives
RegexTestI(alts, s) == \E lit \in alts : Contains(ToLower(s), lit)

S_mp4 == <<"m", "p", "4">>
S_webm == <<"w", "e", "b", "m">>
S_m4a == <<"m", "4", "a">>
S_mp3 == <<"m", "p", "3">>
S_opus == <<"o", "p", "u", "s">>
S_dl == <<"d", "l", "-">>

(* --------------------------- JavaScript values ------------------------ *)
\* the value of a query parameter or JSON field that is absent
Undefined == "<undefined>"
\* truthiness of a string-or-undefined value: undefined and "" are falsy
Truthy(v) == v # Undefined /\ v # ""
\* truthiness of a number-or-undefined value; an absent number is written 0,
\* which JavaScript treats like undefined in every place the code reads it
TruthyNum(n) == n # 0

(* ----------------------------- validation ----------------------------- *)
\* req.query.url as Express parses it: absent, a string (here already split
\* the way validator splits it: the text before "://" and the host), or an
\* array when the parameter is repeated (?url=a&url=b)
UrlStrings ==
    { [shape |-> "string", scheme |-> sc, host |-> h] :
        sc \in {"", "https", "ftp"},
        h \in {"youtube.com", "evil.example"} }

UrlValues ==
    UrlStrings
    \cup { [shape |-> "undefined", scheme |-> "", host |-> ""],
           [shape |-> "empty", scheme |-> "", host |-> ""],
           [shape |-> "array", scheme |-> "", host |-> ""] }

\* `!url`
UrlFalsy(url) == url.shape \in {"undefined", "empty"}

\* validator.isURL(url, options) with validator's defaults for the options the
\* code does not set (require_protocol: false, require_valid_protocol: true):
\* "TypeError" when url is not a string (assertString), else "true"/"false"
isURL(url, protocols, host_whitelist, require_protocol) ==
    IF url.shape # "string" THEN "TypeError"
    ELSE IF url.scheme # "" /\ url.scheme \notin protocols THEN "false"
    ELSE IF url.scheme = "" /\ require_protocol THEN "false"
    ELSE IF url.host \in host_whitelist THEN "true"
    ELSE "false"

isValidYouTubeUrl(url) ==
    isURL(url, {"http", "https"},
          {"www.youtube.com", "youtube.com", "youtu.be"}, FALSE)

\* the checks at the head of the inspect handler: "400", "throw" or "ok"
InspectValidate(url) ==
    IF UrlFalsy(url) THEN "400"
    ELSE LET v == isValidYouTubeUrl(url)
         IN  IF v = "TypeError" THEN "throw"
             ELSE IF v = "false" THEN "400" ELSE "ok"

\* the checks at the head of the download handler
DownloadValidate(url, format_id) ==
    IF UrlFalsy(url) THEN "400"
    ELSE IF ~Truthy(format_id) THEN "400"
    ELSE LET v == isValidYouTubeUrl(url)
         IN  IF v = "TypeError" THEN "throw"
             ELSE IF v = "false" THEN "400" ELSE "ok"

(* --------------------------- inspect: formats ------------------------- *)
\* one entry of json.formats; height, abr and filesize are 0 when absent
VideoHeights == {360, 480, 720, 1080}

AudioFilter(f) ==
    f.vcodec = "none" /\ RegexTestI({S_m4a, S_mp3, S_opus}, f.ext)

VideoFilter(f) ==
    /\ Truthy(f.vcodec)
    /\ TruthyNum(f.height)
    /\ f.height \in VideoHeights
    /\ RegexTestI({S_mp4, S_webm}, f.ext)

FilterFormats(formats, kind) ==
    IF kind = "yta" THEN SelectSeq(formats, AudioFilter)
    ELSE SelectSeq(formats, VideoFilter)

\* the comparator of formats.sort: negative when a goes first
Compare(a, b) == b.height - a.height

\* Array.prototype.sort is stable: an insertion sort that puts x behind every
\* element the comparator does not place after it
RECURSIVE InsertSorted(_, _)
InsertSorted(x, s) ==
    IF s = << >> THEN <<x>>
    ELSE IF Compare(Head(s), x) <= 0 THEN <<Head(s)>> \o InsertSorted(x, Tail(s))
    ELSE <<x>> \o s

RECURSIVE SortFormats(_)
SortFormats(s) ==
    IF s = << >> THEN << >>
    ELSE InsertSorted(s[Len(s)], SortFormats(SubSeq(s, 1, Len(s) - 1)))

\* formatBytes: null (here the empty record of size 0) for a falsy count, else
\* the count scaled by 1024 while it is at least 1024, in hundredths
\* toFixed(2) of rem / div for rem < div, in hundredths: the nearest
\* hundredth, the larger one on a tie. div is a power of 1024, and the
\* quotient is taken in two steps so that no product leaves 32 bits.
ToFixed2(rem, div) ==
    IF div = 1 THEN 0
    ELSE LET d == div \div 1024
             h == rem \div 1024
             l == rem % 1024
         IN  (h * 200 + (l * 200) \div 1024 + d) \div (2 * d)

RECURSIVE ScaleBytes(_, _, _)
ScaleBytes(bytes, div, i) ==
    IF i < 3 /\ bytes >= 1024 * div THEN ScaleBytes(bytes, div * 1024, i + 1)
    ELSE [hundredths |-> (bytes \div div) * 100 + ToFixed2(bytes % div, div),
          unit |-> i]

formatBytes(bytes) ==
    IF ~TruthyNum(bytes) THEN [hundredths |-> 0, unit |-> -1]
    ELSE ScaleBytes(bytes, 1, 0)

Cleaned(f) ==
    [format_id |-> f.format_id,
     ext |-> f.ext,
     resolution |-> IF TruthyNum(f.height) THEN f.height ELSE 0,
     audio_bitrate |-> f.abr,
     size |-> formatBytes(IF TruthyNum(f.filesize) THEN f.filesize
                          ELSE f.filesize_approx)]

\* lines 91-114: json.formats || [], filter, sort, map
InspectFormats(json, kind) ==
    LET formats == IF json.hasFormats THEN json.formats ELSE << >>
        sorted == SortFormats(FilterFormats(formats, kind))
    IN  [i \in 1..Len(sorted) |-> Cleaned(sorted[i])]

(* ------------------------- the tool's output -------------------------- *)
\* a format entry as the tool prints it
Format(id, vcodec, height, ext) ==
    [format_id |-> id, vcodec |-> vcodec, height |-> height, ext |-> ext,
     abr |-> 0, filesize |-> 0, filesize_approx |-> 0]

NoJson == [hasFormats |-> FALSE, formats |-> << >>]

\* JSON documents the tool prints in the request model: one with a format
\* that each filter keeps and one that no filter keeps, and one with no
\* formats field
MainDocs ==
    { [hasFormats |-> TRUE,
       formats |-> <<Format(1, "avc1", 720, S_mp4), Format(2, "none", 0, S_m4a),
                     Format(3, "avc1", 144, S_mp4)>>],
      NoJson }

\* one data event on stdout: the text of a JSON document, or text that is
\* no JSON
Chunk(part, json) == [part |-> part, json |-> json]
RawChunk == Chunk("raw", NoJson)
ChunksOf(docs) == { Chunk("json", d) : d \in docs } \cup {RawChunk}

\* JSON.parse(info): the captured text is a document when it is the text
\* of exactly one document (two documents in a row are no JSON)
JSONparses(info) == Len(info) = 1 /\ info[1].part = "json"
JSONparse(info) == info[1].json

\* an exit code of the child; Null is the code of a child ended by a signal
Null == -1
ExitCodes == {0, 1, Null}
CodeText(code) == IF code = Null THEN "null" ELSE IF code = 0 THEN "0" ELSE "1"

(* -------------------------------- runner ------------------------------ *)
Pending == [state |-> "pending", value |-> << >>, message |-> << >>]
NoPromise == [state |-> "none", value |-> << >>, message |-> << >>]
Resolved(v) == [state |-> "resolved", value |-> v, message |-> << >>]
Rejected(m) == [state |-> "rejected", value |-> << >>, message |-> m]

TimeoutMessage == <<"Operation timed out">>

\* the close handler without the `||` fallback: an empty stderr is the message
CloseOutcomeNoFallback(code, o, e) ==
    IF code = 0 THEN Resolved(o) ELSE Rejected(e)

\* the close handler of runYtDlp (lines 47-51): what the promise is settled
\* with, given the exit code and the captured text
CloseOutcome(code, o, e) ==
    IF code = 0 THEN Resolved(o)
    ELSE Rejected(IF e # << >> THEN e
                  ELSE <<"Process exited with code ", CodeText(code)>>)

(* ------------------------------ responses ----------------------------- *)
NoResponse == [status |-> 0, error |-> << >>, formats |-> << >>]
Response(status, error, formats) ==
    [status |-> status, error |-> error, formats |-> formats]

\* the inspect handler after `await runYtDlp` (lines 89-128)
InspectContinue(outcome, kind) ==
    IF outcome.state = "rejected"
      THEN Response(500, <<"Failed to inspect video: ">> \o outcome.message, << >>)
    ELSE IF ~JSONparses(outcome.value)
      THEN Response(500, <<"Failed to inspect video: ", "SyntaxError">>, << >>)
    ELSE Response(200, << >>, InspectFormats(JSONparse(outcome.value), kind))

(* ------------------------------- state -------------------------------- *)
VARIABLES
    listening,   \* the app.listen callback has run
    tmp,         \* os.tmpdir(): entry name -> [exists, age, files]
    sweepTimer,  \* ticks until the setInterval timer is due
    lastSweep,   \* the names the most recent cleanupTempFiles run deleted
    pc,          \* per request: "idle", "await", "transfer", "done"
    query,       \* per request: the route and req.query
    res,         \* per request: the response sent (status 0: none yet)
    tmpDir,      \* per request: the directory mkdtempSync returned
    proc,        \* per request: the child process
    timer,       \* per request: ticks until the runner's timeout (-1: not armed)
    out,         \* per request: stdout captured by the runner
    err,         \* per request: stderr captured by the runner
    promise,     \* per request: the promise runYtDlp returned
    spawned,     \* per request: number of child processes spawned
    insp,        \* input and result of the format filter checked on its own
    sweepError,  \* the error a cleanupTempFiles run threw ("" when none)
    hits,        \* per client address: the rate limiter's count in its window
    admitted     \* per client address: handler runs in the limiter's window

vars == <<listening, tmp, sweepTimer, lastSweep, pc, query, res, tmpDir, proc,
          timer, out, err, promise, spawned, insp, sweepError, hits, admitted>>

\* the client addresses the rate limiter tells apart
Clients == {"10.0.0.1", "10.0.0.2"}

Reqs == 1..MaxReq

Suffixes == <<"a", "b", "c", "d", "e", "f">>
\* names mkdtempSync(path.join(os.tmpdir(), "dl-")) can return
DlNames == { S_dl \o <<Suffixes[i]>> : i \in 1..(MaxReq + 1) }
\* an entry of the temp root that belongs to something else
OtherNames == { <<"x", "d", "l", "-">> }
Names == DlNames \cup OtherNames
LeftoverName == S_dl \o <<Suffixes[1]>>
NoName == << >>

NoEntry == [exists |-> FALSE, age |-> 0, files |-> 0]
Entry(age, files) == [exists |-> TRUE, age |-> age, files |-> files]

NoQuery == [route |-> "", url |-> [shape |-> "undefined", scheme |-> "", host |-> ""],
            format_id |-> Undefined, kind |-> "ytv"]
NoProc == [state |-> "none", signalled |-> FALSE]
NoInsp == [stage |-> "off", kind |-> "ytv", json |-> NoJson, response |-> NoResponse]

(* ------------------------------ the sweep ----------------------------- *)
\* the age test with >= for >: an entry of exactly the retention age goes too
TooOldInclusive(entry) == entry.age * TickMs >= MAX_FILE_AGE

\* the age test with the age taken in seconds: no entry is ever old enough
TooOldSeconds(entry) == (entry.age * TickMs) \div 1000 > MAX_FILE_AGE

\* the age test with a retention window of an hour
TooOldHour(entry) == entry.age * TickMs > 2 * MAX_FILE_AGE

\* line 63: Date.now() - stat.mtimeMs > MAX_FILE_AGE
TooOld(entry) == entry.age * TickMs > MAX_FILE_AGE

\* lines 58-59: the entries cleanupTempFiles visits
Listed(t) == { n \in Names : t[n].exists /\ startsWith(n, S_dl) }

\* the names a cleanupTempFiles run deletes from temp root t
SweepVictims(t) == { n \in Listed(t) : TooOld(t[n]) }

cleanupTempFiles ==
    /\ tmp' = [n \in Names |-> IF n \in SweepVictims(tmp) THEN NoEntry ELSE tmp[n]]
    /\ lastSweep' = SweepVictims(tmp)

(* -------------------------------- Init -------------------------------- *)
Init ==
    /\ listening = FALSE
    \* the temp root holds an old entry of another program and may hold a
    \* directory that an earlier run of the server left behind
    /\ tmp \in { t \in [Names -> {NoEntry, Entry(0, 0), Entry(AgeCap, 0)}] :
                   /\ \A n \in OtherNames : t[n] = Entry(AgeCap, 0)
                   /\ \A n \in DlNames \ {LeftoverName} : t[n] = NoEntry }
    /\ sweepTimer = SweepTicks
    /\ lastSweep = {}
    /\ pc = [r \in Reqs |-> "idle"]
    /\ query = [r \in Reqs |-> NoQuery]
    /\ res = [r \in Reqs |-> NoResponse]
    /\ tmpDir = [r \in Reqs |-> NoName]
    /\ proc = [r \in Reqs |-> NoProc]
    /\ timer = [r \in Reqs |-> -1]
    /\ out = [r \in Reqs |-> << >>]
    /\ err = [r \in Reqs |-> << >>]
    /\ promise = [r \in Reqs |-> NoPromise]
    /\ spawned = [r \in Reqs |-> 0]
    /\ insp = NoInsp
    /\ sweepError = ""
    /\ hits = [c \in Clients |-> 0]
    /\ admitted = [c \in Clients |-> 0]

(* ------------------------------- server ------------------------------- *)
\* lines 195-198: the listen callback runs the initial cleanup
Listen ==
    /\ ~listening
    /\ listening' = TRUE
    /\ cleanupTempFiles
    /\ UNCHANGED <<sweepTimer, pc, query, res, tmpDir, proc, timer, out, err,
                   promise, spawned, insp, sweepError, hits, admitted>>

\* line 193: the hourly interval
IntervalSweep ==
    /\ listening
    /\ sweepTimer = 0
    /\ sweepTimer' = SweepTicks
    /\ cleanupTempFiles
    /\ UNCHANGED <<listening, pc, query, res, tmpDir, proc, timer, out, err,
                   promise, spawned, insp, sweepError, hits, admitted>>

\* TickMs pass; no timer that is due is skipped, and as a window of the
\* rate limiter is no longer than TickMs, every client's window has ended
Tick ==
    /\ listening
    /\ sweepTimer > 0
    /\ \A r \in DOMAIN timer : timer[r] # 0
    /\ sweepTimer' = sweepTimer - 1
    /\ timer' = [r \in DOMAIN timer |-> IF timer[r] > 0 THEN timer[r] - 1 ELSE timer[r]]
    /\ tmp' = [n \in Names |->
                 IF tmp[n].exists /\ tmp[n].age < AgeCap
                   THEN [tmp[n] EXCEPT !.age = @ + 1] ELSE tmp[n]]
    /\ hits' = [c \in Clients |-> IF WINDOW_MS <= TickMs THEN 0 ELSE hits[c]]
    /\ admitted' = [c \in Clients |-> IF WINDOW_MS <= TickMs THEN 0 ELSE admitted[c]]
    /\ UNCHANGED <<listening, lastSweep, pc, query, res, tmpDir, proc, out, err,
                   promise, spawned, insp, sweepError>>

(* --------------------------- the rate limiter ------------------------- *)
\* a limiter that lets one request more than max pass
OverLimitOffByOne(totalHits) == totalHits > RATE_MAX + 1

\* express-rate-limit: the request is refused when the client's count in
\* the window, this request included, is above max
OverLimit(totalHits) == totalHits > RATE_MAX

\* the limiter's answer to a refused request; the route's handler is not run
TooManyRequests(r) ==
    /\ listening
    /\ pc[r] = "idle"
    /\ res' = [res EXCEPT ![r] =
                 Response(429, <<"Too many requests, please try again later.">>, << >>)]
    /\ pc' = [pc EXCEPT ![r] = "done"]
    /\ UNCHANGED <<listening, tmp, sweepTimer, lastSweep, query, tmpDir, proc, timer,
                   out, err, promise, spawned, insp, sweepError>>

\* app.get(path, apiLimiter, handler) for a request of client c in slot r:
\* the limiter counts the request and either refuses it or runs the handler
Route(c, r, handler) ==
    /\ hits[c] < RATE_MAX + MaxOver
    /\ hits' = [hits EXCEPT ![c] = @ + 1]
    /\ IF OverLimit(hits[c] + 1)
         THEN TooManyRequests(r) /\ UNCHANGED admitted
         ELSE handler /\ admitted' = [admitted EXCEPT ![c] = @ + 1]

\* the window of client c ends: its count starts again
WindowReset(c) ==
    /\ hits[c] > 0
    /\ hits' = [hits EXCEPT ![c] = 0]
    /\ admitted' = [admitted EXCEPT ![c] = 0]
    /\ UNCHANGED <<listening, tmp, sweepTimer, lastSweep, pc, query, res, tmpDir,
                   proc, timer, out, err, promise, spawned, insp, sweepError>>

(* ------------------------------ requests ------------------------------ *)
Kinds == {"ytv", "yta"}
FormatIds == {Undefined, "", "22"}

\* a runner that spawns the tool a second time
runYtDlpTwice(r) ==
    /\ proc' = [proc EXCEPT ![r] = [state |-> "running", signalled |-> FALSE]]
    /\ timer' = [timer EXCEPT ![r] = TimeoutTicks]
    /\ promise' = [promise EXCEPT ![r] = Pending]
    /\ spawned' = [spawned EXCEPT ![r] = @ + 2]
    /\ out' = [out EXCEPT ![r] = << >>]
    /\ err' = [err EXCEPT ![r] = << >>]

\* runYtDlp(args) up to the return of the promise (lines 34-46, 52): spawn
\* the child, arm the timeout, capture nothing yet
runYtDlp(r) ==
    /\ proc' = [proc EXCEPT ![r] = [state |-> "running", signalled |-> FALSE]]
    /\ timer' = [timer EXCEPT ![r] = TimeoutTicks]
    /\ promise' = [promise EXCEPT ![r] = Pending]
    /\ spawned' = [spawned EXCEPT ![r] = @ + 1]
    /\ out' = [out EXCEPT ![r] = << >>]
    /\ err' = [err EXCEPT ![r] = << >>]

\* GET /api/inspect up to its await (lines 78-89)
InspectRequest(r, url, kind) ==
    /\ listening
    /\ pc[r] = "idle"
    /\ query' = [query EXCEPT ![r] = [route |-> "inspect", url |-> url,
                                      format_id |-> Undefined, kind |-> kind]]
    /\ LET v == InspectValidate(url)
       IN  \/ /\ v = "400"
              /\ res' = [res EXCEPT ![r] =
                           Response(400, <<"Valid YouTube URL is required">>, << >>)]
              /\ pc' = [pc EXCEPT ![r] = "done"]
              /\ UNCHANGED <<proc, timer, promise, spawned, out, err>>
           \/ /\ v = "throw"
              /\ res' = [res EXCEPT ![r] =
                           Response(500, <<"Failed to inspect video: ", "TypeError">>, << >>)]
              /\ pc' = [pc EXCEPT ![r] = "done"]
              /\ UNCHANGED <<proc, timer, promise, spawned, out, err>>
           \/ /\ v = "ok"
              /\ runYtDlp(r)
              /\ pc' = [pc EXCEPT ![r] = "await"]
              /\ UNCHANGED res
    /\ UNCHANGED <<listening, tmp, sweepTimer, lastSweep, tmpDir, insp, sweepError>>

\* GET /api/download up to its await (lines 132-154)
DownloadRequest(r, url, format_id, kind) ==
    /\ listening
    /\ pc[r] = "idle"
    \* kind only chooses the tool's arguments (line 149) and is not kept
    /\ query' = [query EXCEPT ![r] = [route |-> "download", url |-> url,
                                      format_id |-> format_id, kind |-> "ytv"]]
    /\ LET v == DownloadValidate(url, format_id)
       IN  \/ /\ v = "400"
              /\ res' = [res EXCEPT ![r] =
                           Response(400, <<"Valid YouTube URL and format_id are required">>, << >>)]
              /\ pc' = [pc EXCEPT ![r] = "done"]
              /\ UNCHANGED <<proc, timer, promise, spawned, out, err, tmp, tmpDir>>
           \/ /\ v = "throw"
              /\ res' = [res EXCEPT ![r] =
                           Response(500, <<"Download failed: ", "TypeError">>, << >>)]
              /\ pc' = [pc EXCEPT ![r] = "done"]
              /\ UNCHANGED <<proc, timer, promise, spawned, out, err, tmp, tmpDir>>
           \/ /\ v = "ok"
              \* mkdtempSync returns a name that no entry of the temp root has
              /\ \E n \in DlNames :
                    /\ ~tmp[n].exists
                    /\ tmp' = [tmp EXCEPT ![n] = Entry(0, 0)]
                    /\ tmpDir' = [tmpDir EXCEPT ![r] = n]
              /\ runYtDlp(r)
              /\ pc' = [pc EXCEPT ![r] = "await"]
              /\ UNCHANGED res
    /\ UNCHANGED <<listening, sweepTimer, lastSweep, insp, sweepError>>

\* the download handler after `await runYtDlp` (lines 154-177), given the
\* entry of its temp directory: the response of the catch block, or no
\* response yet when res.download has been started
DownloadContinue(outcome, entry) ==
    IF outcome.state = "rejected"
      THEN Response(500, <<"Download failed: ">> \o outcome.message, << >>)
    ELSE IF ~entry.exists
      THEN Response(500, <<"Download failed: ", "ENOENT">>, << >>)
    ELSE IF entry.files = 0
      THEN Response(500, <<"Download failed: ", "No file was downloaded">>, << >>)
    ELSE NoResponse

\* the promise of request r is settled with outcome and, in the same turn of
\* the event loop, the awaiting handler runs to its end or to res.download
Settle(r, outcome) ==
    /\ promise' = [promise EXCEPT ![r] = outcome]
    /\ IF query[r].route = "inspect"
         THEN /\ res' = [res EXCEPT ![r] = InspectContinue(outcome, query[r].kind)]
              /\ pc' = [pc EXCEPT ![r] = "done"]
         ELSE LET resp == DownloadContinue(outcome, tmp[tmpDir[r]])
              IN  /\ res' = [res EXCEPT ![r] = resp]
                  /\ pc' = [pc EXCEPT ![r] =
                              IF resp = NoResponse THEN "transfer" ELSE "done"]

(* --------------------------- the child process ------------------------ *)
\* line 44: a data event on the child's stdout
StdoutData(r, d) ==
    /\ proc[r].state = "running"
    /\ promise[r].state = "pending"
    /\ Len(out[r]) < MaxChunks
    /\ out' = [out EXCEPT ![r] = @ \o <<d>>]
    /\ UNCHANGED <<listening, tmp, sweepTimer, lastSweep, pc, query, res, tmpDir,
                   proc, timer, err, promise, spawned, insp, sweepError, hits, admitted>>

\* line 45: a data event on the child's stderr
StderrData(r, d) ==
    /\ proc[r].state = "running"
    /\ promise[r].state = "pending"
    /\ Len(err[r]) < MaxChunks
    /\ err' = [err EXCEPT ![r] = @ \o <<d>>]
    /\ UNCHANGED <<listening, tmp, sweepTimer, lastSweep, pc, query, res, tmpDir,
                   proc, timer, out, promise, spawned, insp, sweepError, hits, admitted>>

\* the tool writes a file into the directory of its -o template, which sets
\* the directory's modification time
ToolWritesFile(r) ==
    /\ proc[r].state = "running"
    /\ query[r].route = "download"
    /\ tmp[tmpDir[r]].exists
    /\ tmp[tmpDir[r]].files < MaxFiles
    /\ tmp' = [tmp EXCEPT ![tmpDir[r]] = Entry(0, @.files + 1)]
    /\ UNCHANGED <<listening, sweepTimer, lastSweep, pc, query, res, tmpDir,
                   proc, timer, out, err, promise, spawned, insp, sweepError, hits, admitted>>

\* a close handler whose outcome replaces one the promise already has
ProcCloseResettles(r, code) ==
    /\ proc[r].state \in {"running", "dying"}
    /\ proc[r].state = "dying" => code = Null
    /\ proc' = [proc EXCEPT ![r].state = "closed"]
    /\ timer' = [timer EXCEPT ![r] = -1]
    /\ Settle(r, CloseOutcome(code, out[r], err[r]))
    /\ UNCHANGED <<listening, tmp, sweepTimer, lastSweep, query, tmpDir, out, err,
                   spawned, insp, sweepError, hits, admitted>>

\* lines 47-51: the child's close event. A child that was sent SIGTERM and
\* ends by it closes with code null.
ProcClose(r, code) ==
    /\ proc[r].state \in {"running", "dying"}
    /\ proc[r].state = "dying" => code = Null
    /\ proc' = [proc EXCEPT ![r].state = "closed"]
    /\ timer' = [timer EXCEPT ![r] = -1]
    /\ IF promise[r].state = "pending"
         THEN Settle(r, CloseOutcome(code, out[r], err[r]))
         ELSE UNCHANGED <<promise, res, pc>>
    /\ UNCHANGED <<listening, tmp, sweepTimer, lastSweep, query, tmpDir, out, err,
                   spawned, insp, sweepError, hits, admitted>>

\* proc.kill() sends SIGTERM: the child ends by it (dies = TRUE) or, when it
\* handles or blocks the signal, keeps running
kill(p, dies) ==
    IF p.state = "running"
      THEN [p EXCEPT !.state = IF dies THEN "dying" ELSE "running",
                     !.signalled = TRUE]
      ELSE p

\* lines 36-39: the timeout callback
TimeoutFire(r, dies) ==
    /\ timer[r] = 0
    /\ timer' = [timer EXCEPT ![r] = -1]
    /\ proc' = [proc EXCEPT ![r] = kill(proc[r], dies)]
    /\ IF promise[r].state = "pending"
         THEN Settle(r, Rejected(TimeoutMessage))
         ELSE UNCHANGED <<promise, res, pc>>
    /\ UNCHANGED <<listening, tmp, sweepTimer, lastSweep, query, tmpDir, out, err,
                   spawned, insp, sweepError, hits, admitted>>

\* a callback that cleans up only after a transfer that ended well
DownloadCallbackOnSuccess(t, dir, how) ==
    IF how = "ok" THEN [t EXCEPT ![dir] = NoEntry] ELSE t

\* lines 165-169: the temp root after the callback of res.download has run
\* with or without an error: fs.rmSync(tmpDir, { recursive, force })
DownloadCallback(t, dir, how) == [t EXCEPT ![dir] = NoEntry]

\* lines 164-170: the callback of res.download. The transfer ended well
\* ("ok"), failed after the headers went out ("aborted") or failed before
\* anything was sent ("unsent"); the callback removes the directory.
TransferDone(r, how) ==
    /\ pc[r] = "transfer"
    /\ pc' = [pc EXCEPT ![r] = "done"]
    /\ res' = [res EXCEPT ![r] =
                 IF how = "unsent" THEN NoResponse ELSE Response(200, << >>, << >>)]
    /\ tmp' = DownloadCallback(tmp, tmpDir[r], how)
    /\ UNCHANGED <<listening, sweepTimer, lastSweep, query, tmpDir, proc, timer,
                   out, err, promise, spawned, insp, sweepError, hits, admitted>>

Next ==
    \/ Listen
    \/ IntervalSweep
    \/ Tick
    \/ \E c \in Clients, r \in Reqs, url \in UrlValues, kind \in Kinds :
          Route(c, r, InspectRequest(r, url, kind))
    \/ \E c \in Clients, r \in Reqs, url \in UrlValues, f \in FormatIds, kind \in Kinds :
          Route(c, r, DownloadRequest(r, url, f, kind))
    \/ \E c \in Clients : WindowReset(c)
    \/ \E r \in Reqs, d \in ChunksOf(MainDocs) : StdoutData(r, d)
    \/ \E r \in Reqs : StderrData(r, "ERROR: unavailable")
    \/ \E r \in Reqs : ToolWritesFile(r)
    \/ \E r \in Reqs, code \in ExitCodes : ProcClose(r, code)
    \/ \E r \in Reqs, dies \in BOOLEAN : TimeoutFire(r, dies)
    \/ \E r \in Reqs, how \in {"ok", "aborted", "unsent"} : TransferDone(r, how)

Spec == Init /\ [][Next]_vars

\* The event loop runs every timer that is due, the clock goes on, and a
\* child that ends by SIGTERM does end.
LiveSpec ==
    /\ Spec
    /\ WF_vars(Listen)
    /\ WF_vars(Tick)
    /\ WF_vars(IntervalSweep)
    /\ \A r \in Reqs : WF_vars(\E dies \in BOOLEAN : TimeoutFire(r, dies))
    /\ \A r \in Reqs : WF_vars(proc[r].state = "dying" /\ ProcClose(r, Null))

(* ------------------ the format filter checked on its own -------------- *)
S_mp4v == <<"m", "p", "4", "v">>
S_mp3x == <<"m", "p", "3", "x">>

\* the fields of a format entry the filter and the sort read
FormatFields ==
    [vcodec : {Undefined, "none", "avc1"},
     height : {0, 144, 720, 1080},
     ext : {S_mp4, S_webm, S_m4a, S_opus, S_mp4v, S_mp3x}]

\* format lists of the tool of length up to max: entry i carries format_id i
FormatLists(max) ==
    UNION { { [i \in 1..n |-> Format(i, fl[i].vcodec, fl[i].height, fl[i].ext)] :
                fl \in [1..n -> FormatFields] } : n \in 0..max }

InspectInit ==
    /\ listening = TRUE
    /\ tmp = [n \in Names |-> NoEntry]
    /\ sweepTimer = SweepTicks
    /\ lastSweep = {}
    /\ pc = [r \in Reqs |-> "idle"]
    /\ query = [r \in Reqs |-> NoQuery]
    /\ res = [r \in Reqs |-> NoResponse]
    /\ tmpDir = [r \in Reqs |-> NoName]
    /\ proc = [r \in Reqs |-> NoProc]
    /\ timer = [r \in Reqs |-> -1]
    /\ out = [r \in Reqs |-> << >>]
    /\ err = [r \in Reqs |-> << >>]
    /\ promise = [r \in Reqs |-> NoPromise]
    /\ spawned = [r \in Reqs |-> 0]
    /\ insp \in { [stage |-> "input", kind |-> k,
                    json |-> [hasFormats |-> TRUE, formats |-> fs],
                    response |-> NoResponse] :
                     k \in Kinds, fs \in FormatLists(MaxFormats) }
    /\ sweepError = ""
    /\ hits = [c \in Clients |-> 0]
    /\ admitted = [c \in Clients |-> 0]

\* the inspect handler resumes with the tool's output (lines 90-122)
InspectResume ==
    /\ insp.stage = "input"
    /\ insp' = [insp EXCEPT
                  !.stage = "done",
                  !.response = InspectContinue(Resolved(<<Chunk("json", insp.json)>>),
                                               insp.kind)]
    /\ UNCHANGED <<listening, tmp, sweepTimer, lastSweep, pc, query, res, tmpDir,
                   proc, timer, out, err, promise, spawned, sweepError, hits,
                   admitted>>

InspectSpec == InspectInit /\ [][InspectResume]_vars

(* ------------------ the size column checked on its own ---------------- *)
\* byte counts the tool reports in filesize: none (0), and counts at and
\* next to the steps between the units
ByteCounts ==
    { b \in { k * m + d : k \in {1, 2, 512, 1023},
                          m \in {1, 1024, 1024 * 1024},
                          d \in {-1, 0, 1} } : b >= 0 }
    \cup { 1024 * 1024 * 1024 - 1, 1024 * 1024 * 1024, 1024 * 1024 * 1024 + 1,
           2047 * 1024 * 1024 }

\* byte counts the tool reports in filesize_approx
ApproxCounts == {0, 1536, 1024 * 1024 - 1}

\* an inspect whose tool output is one video format with the two byte counts
BytesInit ==
    /\ listening = TRUE
    /\ tmp = [n \in Names |-> NoEntry]
    /\ sweepTimer = SweepTicks
    /\ lastSweep = {}
    /\ pc = [r \in Reqs |-> "idle"]
    /\ query = [r \in Reqs |-> NoQuery]
    /\ res = [r \in Reqs |-> NoResponse]
    /\ tmpDir = [r \in Reqs |-> NoName]
    /\ proc = [r \in Reqs |-> NoProc]
    /\ timer = [r \in Reqs |-> -1]
    /\ out = [r \in Reqs |-> << >>]
    /\ err = [r \in Reqs |-> << >>]
    /\ promise = [r \in Reqs |-> NoPromise]
    /\ spawned = [r \in Reqs |-> 0]
    /\ insp \in { [stage |-> "input", kind |-> "ytv",
                    json |-> [hasFormats |-> TRUE,
                              formats |-> << [Format(1, "avc1", 720, S_mp4) EXCEPT
                                                !.filesize = b,
                                                !.filesize_approx = a] >>],
                    response |-> NoResponse] :
                     b \in ByteCounts, a \in ApproxCounts }
    /\ sweepError = ""
    /\ hits = [c \in Clients |-> 0]
    /\ admitted = [c \in Clients |-> 0]

BytesSpec == BytesInit /\ [][InspectResume]_vars

(* ----------- the sweep with another process deleting entries ---------- *)
\* the orders in which readdirSync can list the names of set S
Orders(S) ==
    { o \in [1..Cardinality(S) -> S] : \A i, j \in 1..Cardinality(S) : o[i] = o[j] => i = j }

\* the position at which the forEach of cleanupTempFiles ends: that of the
\* first listed entry that is gone when statSync reaches it (statSync throws
\* ENOENT and nothing catches it), past the end when there is none
StatThrowsAt(order, gone) ==
    IF \E i \in 1..Len(order) : order[i] \in gone
      THEN CHOOSE i \in 1..Len(order) :
               order[i] \in gone /\ \A j \in 1..(i - 1) : order[j] \notin gone
      ELSE Len(order) + 1

\* lines 56-67 while another process deletes entries of the temp root: the
\* entries in gone vanish between readdirSync and their statSync, those in
\* late between their statSync and their rmSync (force: true: no error)
cleanupTempFilesRacing(order, gone, late) ==
    LET stop == StatThrowsAt(order, gone)
        visited == { order[i] : i \in 1..(stop - 1) }
        removed == { n \in visited : TooOld(tmp[n]) }
    IN  /\ tmp' = [n \in Names |->
                     IF n \in removed \cup gone \cup late THEN NoEntry ELSE tmp[n]]
        /\ lastSweep' = removed
        /\ sweepError' = IF stop <= Len(order) THEN "ENOENT" ELSE ""

\* the temp root holds dl- directories of any age
RaceInit ==
    /\ listening = FALSE
    /\ tmp \in { t \in [Names -> {NoEntry} \cup { Entry(a, f) : a \in 0..AgeCap,
                                                              f \in 0..MaxFiles }] :
                   \A n \in OtherNames : t[n] = Entry(AgeCap, 0) }
    /\ sweepTimer = SweepTicks
    /\ lastSweep = {}
    /\ pc = [r \in Reqs |-> "idle"]
    /\ query = [r \in Reqs |-> NoQuery]
    /\ res = [r \in Reqs |-> NoResponse]
    /\ tmpDir = [r \in Reqs |-> NoName]
    /\ proc = [r \in Reqs |-> NoProc]
    /\ timer = [r \in Reqs |-> -1]
    /\ out = [r \in Reqs |-> << >>]
    /\ err = [r \in Reqs |-> << >>]
    /\ promise = [r \in Reqs |-> NoPromise]
    /\ spawned = [r \in Reqs |-> 0]
    /\ insp = NoInsp
    /\ sweepError = ""
    /\ hits = [c \in Clients |-> 0]
    /\ admitted = [c \in Clients |-> 0]

\* lines 195-198 with the racing deleter; an error thrown in the callback
\* is caught nowhere and ends the process
RaceListen(order, gone, late) ==
    /\ ~listening
    /\ sweepError = ""
    /\ listening' = TRUE
    /\ cleanupTempFilesRacing(order, gone, late)
    /\ UNCHANGED <<sweepTimer, pc, query, res, tmpDir, proc, timer, out, err,
                   promise, spawned, insp, hits, admitted>>

\* line 193 with the racing deleter
RaceIntervalSweep(order, gone, late) ==
    /\ listening
    /\ sweepError = ""
    /\ sweepTimer = 0
    /\ sweepTimer' = SweepTicks
    /\ cleanupTempFilesRacing(order, gone, late)
    /\ UNCHANGED <<listening, pc, query, res, tmpDir, proc, timer, out, err,
                   promise, spawned, insp, hits, admitted>>

RaceNext ==
    \/ \E order \in Orders(Listed(tmp)), gone \in SUBSET Listed(tmp) :
          \E late \in SUBSET (Listed(tmp) \ gone) : RaceListen(order, gone, late)
    \/ \E order \in Orders(Listed(tmp)), gone \in SUBSET Listed(tmp) :
          \E late \in SUBSET (Listed(tmp) \ gone) : RaceIntervalSweep(order, gone, late)
    \/ sweepError = "" /\ Tick

RaceSpec == RaceInit /\ [][RaceNext]_vars

(* ------------------- downloads handled at the same time -------------- *)
Downloads == 1..MaxDownloads

\* a url and a format_id that pass the checks of the download handler
ValidUrl == [shape |-> "string", scheme |-> "https", host |-> "youtube.com"]
ValidFormatId == "22"

\* the server is listening, the temp root holds no dl- directory, and no
\* request has come in
PairInit ==
    /\ listening = TRUE
    /\ tmp = [n \in Names |-> IF n \in OtherNames THEN Entry(AgeCap, 0) ELSE NoEntry]
    /\ sweepTimer = SweepTicks
    /\ lastSweep = {}
    /\ pc = [r \in Downloads |-> "idle"]
    /\ query = [r \in Downloads |-> NoQuery]
    /\ res = [r \in Downloads |-> NoResponse]
    /\ tmpDir = [r \in Downloads |-> NoName]
    /\ proc = [r \in Downloads |-> NoProc]
    /\ timer = [r \in Downloads |-> -1]
    /\ out = [r \in Downloads |-> << >>]
    /\ err = [r \in Downloads |-> << >>]
    /\ promise = [r \in Downloads |-> NoPromise]
    /\ spawned = [r \in Downloads |-> 0]
    /\ insp = NoInsp
    /\ sweepError = ""
    /\ hits = [c \in Clients |-> 0]
    /\ admitted = [c \in Clients |-> 0]

PairNext ==
    \/ IntervalSweep
    \/ Tick
    \/ \E c \in Clients, r \in Downloads :
          Route(c, r, DownloadRequest(r, ValidUrl, ValidFormatId, "ytv"))
    \/ \E r \in Downloads : ToolWritesFile(r)
    \/ \E r \in Downloads, code \in {0, 1} : ProcClose(r, code)
    \/ \E r \in Downloads, dies \in BOOLEAN : TimeoutFire(r, dies)
    \/ \E r \in Downloads, how \in {"ok", "aborted"} : TransferDone(r, how)

PairSpec == PairInit /\ [][PairNext]_vars

(* -------------------- many requests and the rate limiter -------------- *)
\* a request without a url parameter
NoUrl == [shape |-> "undefined", scheme |-> "", host |-> ""]

LimiterInit ==
    /\ listening = TRUE
    /\ tmp = [n \in Names |-> IF n \in OtherNames THEN Entry(AgeCap, 0) ELSE NoEntry]
    /\ sweepTimer = SweepTicks
    /\ lastSweep = {}
    /\ pc = [r \in Reqs |-> "idle"]
    /\ query = [r \in Reqs |-> NoQuery]
    /\ res = [r \in Reqs |-> NoResponse]
    /\ tmpDir = [r \in Reqs |-> NoName]
    /\ proc = [r \in Reqs |-> NoProc]
    /\ timer = [r \in Reqs |-> -1]
    /\ out = [r \in Reqs |-> << >>]
    /\ err = [r \in Reqs |-> << >>]
    /\ promise = [r \in Reqs |-> NoPromise]
    /\ spawned = [r \in Reqs |-> 0]
    /\ insp = NoInsp
    /\ sweepError = ""
    /\ hits = [c \in Clients |-> 0]
    /\ admitted = [c \in Clients |-> 0]

\* the request of slot r is over and its child has closed: req and res are
\* dropped and the slot takes the next request
Recycle(r) ==
    /\ pc[r] = "done"
    /\ proc[r].state \in {"none", "closed"}
    /\ pc' = [pc EXCEPT ![r] = "idle"]
    /\ query' = [query EXCEPT ![r] = NoQuery]
    /\ res' = [res EXCEPT ![r] = NoResponse]
    /\ tmpDir' = [tmpDir EXCEPT ![r] = NoName]
    /\ proc' = [proc EXCEPT ![r] = NoProc]
    /\ timer' = [timer EXCEPT ![r] = -1]
    /\ out' = [out EXCEPT ![r] = << >>]
    /\ err' = [err EXCEPT ![r] = << >>]
    /\ promise' = [promise EXCEPT ![r] = NoPromise]
    /\ spawned' = [spawned EXCEPT ![r] = 0]
    /\ UNCHANGED <<listening, tmp, sweepTimer, lastSweep, insp, sweepError, hits,
                   admitted>>

LimiterNext ==
    \/ \E c \in Clients, r \in Reqs, url \in {ValidUrl, NoUrl} :
          Route(c, r, InspectRequest(r, url, "ytv"))
    \/ \E c \in Clients, r \in Reqs :
          Route(c, r, DownloadRequest(r, ValidUrl, ValidFormatId, "ytv"))
    \/ \E r \in Reqs : ProcClose(r, 1)
    \/ \E r \in Reqs : Recycle(r)
    \/ \E c \in Clients : WindowReset(c)

LimiterSpec == LimiterInit /\ [][LimiterNext]_vars

(* ================================ claims ============================== *)

\* what the claims call an http(s) URL on an allow-listed host
IsAllowedHttpUrl(url) ==
    /\ url.shape = "string"
    /\ url.scheme \in {"http", "https"}
    /\ url.host \in {"www.youtube.com", "youtube.com", "youtu.be"}

\* C1: a request whose url is missing or is no http(s) URL on an allow-listed
\* host, and a download request whose format_id is missing, is answered with
\* 400, spawns no child and creates no temp directory.
C1_ValidationNoSideEffects ==
    \A r \in Reqs :
        ( /\ query[r].route # ""
          /\ \/ ~IsAllowedHttpUrl(query[r].url)
             \/ query[r].route = "download" /\ query[r].format_id = Undefined )
        => /\ res[r].status = 400
           /\ spawned[r] = 0
           /\ tmpDir[r] = NoName

\* C2: a download whose tool run exits with status zero and leaves no file is
\* answered with 500, and its temp directory no longer exists once that
\* response has been sent.
C2_NoFileRemovesDir ==
    \A r \in Reqs :
        ( /\ query[r].route = "download"
          /\ promise[r].state = "resolved"
          /\ res[r].error = <<"Download failed: ", "No file was downloaded">> )
        => /\ res[r].status = 500
           /\ ~tmp[tmpDir[r]].exists

\* the promise of request r was rejected by the timeout callback
TimedOut(r) == promise[r] = Rejected(TimeoutMessage)

\* C3: when the timeout elapses before the child has closed, the runner fails
\* with "Operation timed out", the request is answered with a 500 carrying
\* that error, and from then on the child is eventually no longer running.
C3_TimeoutTerminatesChild ==
    \A r \in Reqs :
        [](TimedOut(r) =>
             /\ res[r].status = 500
             /\ res[r].error \in { <<"Failed to inspect video: ">> \o TimeoutMessage,
                                   <<"Download failed: ">> \o TimeoutMessage }
             /\ <>(proc[r].state = "closed"))

HasDlPrefix(n) == Len(n) >= 3 /\ n[1] = "d" /\ n[2] = "l" /\ n[3] = "-"
OlderThanThirtyMinutes(entry) == entry.age * TickMs > 30 * 60 * 1000

\* C5: a sweep changes an entry of the temp root only by deleting it, and only
\* if its name starts with "dl-" and its age is strictly above 30 minutes;
\* every other entry is as it was.
C5_SweepFrame ==
    [][ (Listen \/ IntervalSweep) =>
          \A n \in Names :
              \/ tmp'[n] = tmp[n]
              \/ /\ tmp'[n] = NoEntry
                 /\ HasDlPrefix(n)
                 /\ OlderThanThirtyMinutes(tmp[n]) ]_vars

\* the hourly sweep has just deleted an old dl- directory and left a dl-
\* directory of exactly 30 minutes and the old entry of another program
C5_Witness ==
    /\ sweepTimer = SweepTicks
    /\ lastSweep # {}
    /\ \E n \in DlNames : tmp[n].exists /\ tmp[n].age * TickMs = MAX_FILE_AGE
    /\ \E n \in OtherNames : tmp[n].exists /\ TooOld(tmp[n])

\* the source entries and the returned entries of the filter checked on its own
Source == insp.json.formats
Returned == insp.response.formats
Ids(fs) == { fs[i].format_id : i \in 1..Len(fs) }
InspectOk == insp.stage = "done" /\ insp.response.status = 200

\* an entry has a video codec: vcodec is present and is not "none"
HasVideoCodec(f) == f.vcodec \notin {Undefined, "", "none"}

\* C6: a successful inspect with a kind other than "yta" returns exactly the
\* source entries that have a video codec, a height in {360, 480, 720, 1080}
\* and an extension that is mp4 or webm.
C6_VideoFilterExact ==
    (InspectOk /\ insp.kind # "yta") =>
        Ids(Returned) =
            { Source[i].format_id : i \in
                { j \in 1..Len(Source) :
                    /\ HasVideoCodec(Source[j])
                    /\ Source[j].height \in {360, 480, 720, 1080}
                    /\ Source[j].ext \in {S_mp4, S_webm} } }

\* C7: a successful inspect with kind "yta" returns exactly the source entries
\* whose vcodec is "none" and whose extension is m4a, mp3 or opus.
C7_AudioFilterExact ==
    (InspectOk /\ insp.kind = "yta") =>
        Ids(Returned) =
            { Source[i].format_id : i \in
                { j \in 1..Len(Source) :
                    /\ Source[j].vcodec = "none"
                    /\ Source[j].ext \in {S_m4a, S_mp3, S_opus} } }

\* C8: the returned list is a permutation of the filtered list; a video result
\* is in non-increasing order of height with ties in the tool's order; an
\* audio result is in the tool's order.
C8_SortOrder ==
    InspectOk =>
        /\ Len(Returned) = Len(FilterFormats(Source, insp.kind))
        /\ Ids(Returned) = Ids(FilterFormats(Source, insp.kind))
        /\ \A i, j \in 1..Len(Returned) :
              i < j =>
                IF insp.kind = "yta"
                  THEN Returned[i].format_id < Returned[j].format_id
                  ELSE \/ Returned[i].resolution > Returned[j].resolution
                       \/ /\ Returned[i].resolution = Returned[j].resolution
                          /\ Returned[i].format_id < Returned[j].format_id

\* C9: when the child closes before the timeout, exit status zero resolves
\* the runner with exactly the captured stdout; any other status rejects it
\* with the captured stderr, or with the exit code when stderr is empty.
C9_RunnerOutcome ==
    [][ \A r \in Reqs, code \in ExitCodes :
          (ProcClose(r, code) /\ promise[r].state = "pending") =>
              IF code = 0
                THEN /\ promise'[r].state = "resolved"
                     /\ promise'[r].value = out[r]
                ELSE /\ promise'[r].state = "rejected"
                     /\ promise'[r].message # << >>
                     /\ \/ err[r] # << >> /\ promise'[r].message = err[r]
                        \/ /\ err[r] = << >>
                           /\ promise'[r].message[Len(promise'[r].message)]
                                = CodeText(code) ]_vars

\* a child has closed with status zero after printing, and the runner
\* resolved with what it printed
C9_Witness ==
    \E r \in Reqs :
        /\ proc[r].state = "closed"
        /\ promise[r].state = "resolved"
        /\ promise[r].value # << >>
        /\ promise[r].value = out[r]

\* the tool's run for an inspect request ended in one of the errors of the
\* claim: it failed or timed out, printed no JSON, or no format is left
ToolError(r) ==
    \/ promise[r].state = "rejected"
    \/ /\ promise[r].state = "resolved"
       /\ \/ ~JSONparses(promise[r].value)
          \/ InspectFormats(JSONparse(promise[r].value), query[r].kind) = << >>

\* C10: an inspect request that passed validation and whose tool run ended
\* in an error (non-zero exit, timeout, unparseable output, empty result
\* set) is answered with 500.
C10_ToolErrorIs500 ==
    \A r \in Reqs :
        (query[r].route = "inspect" /\ ToolError(r)) => res[r].status = 500

\* request r is a download whose tool run produced a file: res.download has
\* been started (its callback may have run already)
Transferring(r) ==
    /\ query[r].route = "download"
    /\ promise[r].state = "resolved"
    /\ res[r].error = << >>

\* C11: on a download whose tool run produced a file, the directory is gone
\* once the transfer callback has run, whatever the transfer's outcome, and
\* while the transfer is in progress no step of the request deletes it (a
\* step that deletes it then is a sweep).
C11_CleanupAfterTransfer ==
    [][ \A r \in Reqs :
          /\ (Transferring(r)' /\ pc'[r] = "done") => ~tmp'[tmpDir'[r]].exists
          /\ ( /\ pc[r] = "transfer" /\ pc'[r] = "transfer"
               /\ tmp[tmpDir[r]].exists /\ ~tmp'[tmpDir[r]].exists )
             => IntervalSweep ]_vars

\* a transfer failed after the tool had written a file, the callback has run
\* and the directory, which no sweep deleted, is gone
C11_Witness ==
    \E r \in Reqs :
        /\ Transferring(r)
        /\ pc[r] = "done"
        /\ res[r] = NoResponse
        /\ tmpDir[r] \notin lastSweep
        /\ ~tmp[tmpDir[r]].exists

\* the byte count formatBytes is given for the one source entry (line 113)
\* and the size it returned
GivenBytes ==
    IF Source[1].filesize # 0 THEN Source[1].filesize ELSE Source[1].filesize_approx
ReturnedSize == Returned[1].size
\* the number of bytes in one B, KB, MB, GB
UnitBytes == <<1, 1024, 1024 * 1024, 1024 * 1024 * 1024>>

\* C12: the size is null for a byte count of zero; for a positive count it
\* is in the unit B, KB, MB or GB in which the count is at least 1 (or B) and
\* below 1024, and the printed number is below 1024.00; 1024 is "1.00 KB",
\* 1048576 is "1.00 MB" and 1073741824 is "1.00 GB".
C12_FormatBytes ==
    (InspectOk /\ Len(Returned) = 1) =>
        /\ GivenBytes = 0 => ReturnedSize.unit = -1
        /\ GivenBytes > 0 =>
              /\ ReturnedSize.unit \in 0..3
              /\ GivenBytes >= UnitBytes[ReturnedSize.unit + 1] \/ ReturnedSize.unit = 0
              /\ ReturnedSize.unit < 3 => GivenBytes < UnitBytes[ReturnedSize.unit + 2]
              /\ ReturnedSize.hundredths < 1024 * 100
        /\ GivenBytes = 1024 => ReturnedSize = [hundredths |-> 100, unit |-> 1]
        /\ GivenBytes = 1024 * 1024 => ReturnedSize = [hundredths |-> 100, unit |-> 2]
        /\ GivenBytes = 1024 * 1024 * 1024 =>
              ReturnedSize = [hundredths |-> 100, unit |-> 3]

\* a step is a run of the sweep during which another process deleted gone
\* before the sweep reached them
RacingSweep(gone) ==
    \E order \in Orders(Listed(tmp)), late \in SUBSET (Listed(tmp) \ gone) :
        \/ RaceListen(order, gone, late)
        \/ RaceIntervalSweep(order, gone, late)

\* C13: a sweep during which listed entries vanish before it reaches them
\* raises no error and still deals with every other listed entry: each one
\* older than the retention window is deleted.
C13_SweepToleratesRaces ==
    [][ \A gone \in SUBSET Listed(tmp) :
          RacingSweep(gone) =>
              /\ sweepError' = ""
              /\ \A n \in Listed(tmp) \ gone : TooOld(tmp[n]) => ~tmp'[n].exists ]_vars

\* request r is a download in flight: its tool run or its file transfer has
\* not finished
InFlight(r) == query[r].route = "download" /\ pc[r] \in {"await", "transfer"}

\* C14: the sweep does not check whether a directory is in use: a sweep that
\* runs while the directory of a download in flight is older than thirty
\* minutes deletes that directory.
C14_SweepIgnoresUse ==
    [][ IntervalSweep =>
          \A r \in Reqs :
              ( /\ InFlight(r)
                /\ tmp[tmpDir[r]].exists
                /\ OlderThanThirtyMinutes(tmp[tmpDir[r]]) )
              => ~tmp'[tmpDir[r]].exists ]_vars

\* a sweep has deleted the directory of a download whose file transfer has
\* not finished
C14_Witness ==
    \E r \in Reqs :
        /\ pc[r] = "transfer"
        /\ tmpDir[r] \in lastSweep
        /\ ~tmp[tmpDir[r]].exists

\* C15: every request is answered exactly once with 200, 400 or 500: a
\* request whose handling has come to its end has its response, and a
\* response that has been sent is never replaced by another.
C15_ExactlyOneResponse ==
    [][ \A r \in Reqs :
          /\ pc'[r] = "done" => res'[r].status \in {200, 400, 500}
          /\ res[r].status # 0 => res'[r] = res[r] ]_vars

Settled(p) == p.state \in {"resolved", "rejected"}

\* C16: a runner invocation settles once, with the outcome of whichever of
\* close and timeout comes first: a settled outcome never changes (a close
\* after the timeout leaves the timeout error), the step that settles it is
\* the timeout with its error or the close with the close's outcome, and a
\* close cancels the timer, so a child that closed unsignalled is never sent
\* a kill.
C16_SettlesOnce ==
    [][ \A r \in Reqs :
          /\ Settled(promise[r]) => promise'[r] = promise[r]
          /\ (promise[r].state = "pending" /\ Settled(promise'[r])) =>
                IF proc'[r].state = "closed"
                  THEN \E code \in ExitCodes :
                          promise'[r] = CloseOutcome(code, out[r], err[r])
                  ELSE promise'[r] = Rejected(TimeoutMessage)
          /\ proc'[r].state = "closed" => timer'[r] = -1
          /\ (proc[r].state = "closed" /\ ~proc[r].signalled) => ~proc'[r].signalled
      ]_vars

\* the child has closed after the timeout failed the invocation, and the
\* outcome is still the timeout error
C16_Witness ==
    \E r \in Reqs :
        /\ proc[r].state = "closed"
        /\ promise[r] = Rejected(TimeoutMessage)
        /\ res[r].status = 500

\* C17: a request spawns at most one child; when its one invocation has
\* failed (non-zero exit or timeout) the request has ended with a 500 and
\* still has spawned one child only.
C17_NoRetry ==
    \A r \in Reqs :
        /\ spawned[r] <= 1
        /\ promise[r].state = "rejected" =>
              /\ pc[r] = "done"
              /\ res[r].status = 500
              /\ spawned[r] = 1

\* a request's one invocation failed with a non-zero exit and the request
\* has ended
C17_Witness ==
    \E r \in Reqs :
        /\ promise[r].state = "rejected"
        /\ promise[r] # Rejected(TimeoutMessage)
        /\ proc[r].state = "closed"
        /\ pc[r] = "done"
        /\ spawned[r] = 1

\* C18: no two downloads in flight use the same temp directory, and the
\* cleanup after a transfer deletes the directory of its own request only:
\* the directory of every other download in flight is as it was.
C18_ExclusiveTempDir ==
    [][ /\ \A r1, r2 \in Downloads :
              (r1 # r2 /\ InFlight(r1)' /\ InFlight(r2)') => tmpDir'[r1] # tmpDir'[r2]
        /\ \A r \in Downloads, how \in {"ok", "aborted"} :
              TransferDone(r, how) =>
                  \A o \in Downloads \ {r} :
                      InFlight(o) => tmp'[tmpDir[o]] = tmp[tmpDir[o]] ]_vars

\* C19: in one window at most 100 requests of a client reach a handler; a
\* further request of that client is answered by the limiter with an error
\* and is over with that: it runs no handler, spawns no child, creates no
\* temp directory and leaves nothing pending.
C19_RateLimit ==
    [][ \A c \in Clients :
          /\ admitted'[c] <= 100
          /\ (hits[c] >= 100 /\ hits'[c] = hits[c] + 1) =>
                /\ \E r \in Reqs :
                      /\ pc[r] = "idle"
                      /\ pc'[r] = "done"
                      /\ res'[r].status = 429
                /\ admitted' = admitted
                /\ spawned' = spawned
                /\ proc' = proc
                /\ promise' = promise
                /\ tmp' = tmp
                /\ tmpDir' = tmpDir ]_vars

\* a client has had its 100 requests handled in this window and its next
\* one has just been refused, while the other client is still served
C19_Witness ==
    \E c \in Clients, r \in Reqs :
        /\ admitted[c] = 100
        /\ hits[c] = 101
        /\ res[r].status = 429
        /\ spawned[r] = 0
        /\ tmpDir[r] = NoName
        /\ \E o \in Clients \ {c} : admitted[o] \in 1..99

====
